---- MODULE Spec2Model ----
(***************************************************************************)
(* A model of hash.py (HashCalculator): the streaming digest engine        *)
(* (calculate_file_hash), the compute mode of process_files (a thread pool *)
(* of hashing tasks collected with as_completed), compare_files,           *)
(* parse_hash_file and auto_verify_files.                                  *)
(*                                                                         *)
(* Text (paths, algorithm names, manifest lines, hex digests) is a         *)
(* sequence of one-character strings, so that the string operations of the *)
(* code (strip, split, join, lower, upper, splitext, glob) are computed and *)
(* not assumed.  File contents are sequences of bytes drawn from Bytes.    *)
(***************************************************************************)
EXTENDS Integers, Sequences, FiniteSets, TLC

\* ------------------------------------------------------------------ bounds
\* Longest file content, in bytes.
MaxLen == 2
\* Most pattern arguments given to the compute mode.
MaxPatterns == 2
\* Largest performance.thread_count.
MaxWorkers == 2

\* The byte values file contents are made of.
Bytes == {1, 2}

Min(a, b) == IF a < b THEN a ELSE b

\* All sequences over S of length at most n.
SeqsUpTo(S, n) == UNION {[1..k -> S] : k \in 0..n}

Contents == SeqsUpTo(Bytes, MaxLen)

Range(s) == {s[i] : i \in DOMAIN s}

\* ------------------------------------------------------------ text helpers
UpperLetters == <<"A","B","C","D","E","F","G","H","I","J","K","L","M",
                  "N","O","P","Q","R","S","T","U","V","W","X","Y","Z">>
LowerLetters == <<"a","b","c","d","e","f","g","h","i","j","k","l","m",
                  "n","o","p","q","r","s","t","u","v","w","x","y","z">>

\* str.lower() and str.upper(), one character at a time.
LowerChar(c) ==
    IF \E i \in DOMAIN UpperLetters : UpperLetters[i] = c
    THEN LowerLetters[CHOOSE i \in DOMAIN UpperLetters : UpperLetters[i] = c]
    ELSE c
UpperChar(c) ==
    IF \E i \in DOMAIN LowerLetters : LowerLetters[i] = c
    THEN UpperLetters[CHOOSE i \in DOMAIN LowerLetters : LowerLetters[i] = c]
    ELSE c
Lower(s) == [i \in DOMAIN s |-> LowerChar(s[i])]
Upper(s) == [i \in DOMAIN s |-> UpperChar(s[i])]

\* s[i:] of Python, for 0 <= i.
Drop(s, i) == SubSeq(s, i + 1, Len(s))
\* s.endswith(t) and s.startswith(t).
EndsWith(s, t) == Len(t) <= Len(s) /\ Drop(s, Len(s) - Len(t)) = t
StartsWith(s, t) == Len(t) <= Len(s) /\ SubSeq(s, 1, Len(t)) = t

\* ---------------------------------------------------------------- hashlib
\* Algorithm names, as the configuration and the manifests' extensions spell them.
MD5 == <<"M","D","5">>
SHA1 == <<"S","H","A","1">>
SHA256 == <<"S","H","A","2","5","6">>
SM3 == <<"S","M","3">>

\* The constructors hashlib has as attributes (hasattr(hashlib, name)).
HashlibAttrs == {Lower(MD5), Lower(SHA1), Lower(SHA256)}
\* hashlib.algorithms_available: also what only hashlib.new() can build.
AlgorithmsAvailable == HashlibAttrs \cup {Lower(SM3)}

HasAttr(name) == name \in HashlibAttrs

\* digest_size of each constructor, in bytes.
DigestSize(algo) ==
    CASE Lower(algo) = Lower(MD5) -> 1
      [] Lower(algo) = Lower(SHA1) -> 2
      [] OTHER -> 3

Base == Cardinality(Bytes) + 1

\* A new accumulator: func().
NewHash(algo) ==
    CASE Lower(algo) = Lower(MD5) -> 0
      [] Lower(algo) = Lower(SHA1) -> 1
      [] OTHER -> 2

\* What one byte does to an accumulator.  The digest is a positional numeral
\* of the bytes fed so far, each algorithm with its own digits and start: it
\* is injective on contents of the model's lengths, as a cryptographic digest
\* is taken to be, and it depends on the order and the number of the bytes.
Mix(algo, h, b) ==
    IF Lower(algo) = Lower(SHA1) THEN h * Base + (Base - b) ELSE h * Base + b

\* h.update(chunk)
RECURSIVE HashUpdate(_, _, _)
HashUpdate(algo, h, chunk) ==
    IF chunk = <<>> THEN h
    ELSE HashUpdate(algo, Mix(algo, h, Head(chunk)), Tail(chunk))

HexDigits == <<"0","1","2","3","4","5","6","7","8","9","a","b","c","d","e","f">>

RECURSIVE HexOf(_, _)
\* The n lowest hex digits of h, most significant first.
HexOf(h, n) ==
    IF n = 0 THEN <<>> ELSE Append(HexOf(h \div 16, n - 1), HexDigits[(h % 16) + 1])

\* h.hexdigest(): lowercase hex, twice digest_size characters.  The digest is
\* the accumulator moved by a fixed amount, which gives every digest of the
\* model a letter among its digits (so that its case can differ).
HexDigest(algo, h) == HexOf(h + 171, 2 * DigestSize(algo))

\* ------------------------------------------------------------ file system
\* A directory: fs maps each name present to its node, dir is the order in which
\* the directory is scanned (glob returns matches in that order).
\* readable: open() succeeds; mmap_ok: mmap.mmap() of the open file succeeds;
\* text: the lines of a text file (a manifest), content: the bytes of a data file.
FileNode(content) ==
    [kind |-> "file", readable |-> TRUE, mmap_ok |-> TRUE, content |-> content, text |-> <<>>]
LockedNode(content) ==
    [kind |-> "file", readable |-> FALSE, mmap_ok |-> TRUE, content |-> content, text |-> <<>>]
DirNode ==
    [kind |-> "dir", readable |-> TRUE, mmap_ok |-> FALSE, content |-> <<>>, text |-> <<>>]

Exists(f, p) == p \in DOMAIN f
IsFile(f, p) == Exists(f, p) /\ f[p].kind = "file"
\* open(p, 'rb') succeeds.
CanOpen(f, p) == IsFile(f, p) /\ f[p].readable

HasMagic(p) == \E i \in DOMAIN p : p[i] = "*"

\* fnmatch of a name against a pattern that is literal or "*" + suffix.
Matches(name, p) ==
    IF p # <<>> /\ Head(p) = "*"
    THEN EndsWith(name, Tail(p)) /\ (name = <<>> \/ Head(name) # ".")
    ELSE name = p

\* glob.glob(pattern) in the current directory.
Glob(f, d, p) ==
    IF HasMagic(p) THEN SelectSeq(d, LAMBDA n : Matches(n, p))
    ELSE IF Exists(f, p) THEN <<p>> ELSE <<>>

\* ------------------------------------------------------- setup_algorithms
\* config['algorithms'] as the set of the names configured enabled.
setup_algorithms(enabled) == {a \in enabled : HasAttr(Lower(a))}

\* ---------------------------------------------------- calculate_file_hash
\* hashes = {name: func() for name, func in self.hash_funcs.items()}
NewAccumulators(hf) == [a \in hf |-> NewHash(a)]

\* The chunk read(buffer_size) returns at offset pos.
ReadChunk(content, pos, buf) == SubSeq(content, pos + 1, Min(pos + buf, Len(content)))

\* The update that reaches the accumulators of one algorithm only.
UpdateFirst(acc, chunk) ==
    [a \in DOMAIN acc |-> IF a = MD5 THEN HashUpdate(a, acc[a], chunk) ELSE acc[a]]

\* for h in hashes.values(): h.update(chunk)
UpdateAll(acc, chunk) == [a \in DOMAIN acc |-> HashUpdate(a, acc[a], chunk)]

\* {name: h.hexdigest() for name, h in hashes.items()}
HexDigests(acc) == [a \in DOMAIN acc |-> HexDigest(a, acc[a])]

RECURSIVE ReadLoop(_, _, _, _)
\* The read loop from offset pos to the end of the file.
ReadLoop(content, pos, buf, acc) ==
    IF ReadChunk(content, pos, buf) = <<>> THEN acc
    ELSE ReadLoop(content, pos + Len(ReadChunk(content, pos, buf)), buf,
                  UpdateAll(acc, ReadChunk(content, pos, buf)))

\* mmap.mmap() tried on every file, the empty ones too (of which it fails).
OpenErrorMmapOfEmpty(f, p, cfg) ==
    IF ~Exists(f, p) THEN "getsize"
    ELSE IF ~CanOpen(f, p) THEN "open"
    ELSE IF cfg.use_mmap /\ (Len(f[p].content) = 0 \/ ~f[p].mmap_ok) THEN "mmap"
    ELSE ""

\* open() that fails of no path that exists.
OpenErrorOfMissingOnly(f, p, cfg) ==
    IF ~Exists(f, p) THEN "getsize"
    ELSE IF cfg.use_mmap /\ Len(f[p].content) > 0 /\ ~f[p].mmap_ok THEN "mmap"
    ELSE ""

\* What stops calculate_file_hash before its first read: os.path.getsize of a
\* missing path, open() of a directory or of an unreadable file, mmap.mmap()
\* failing when use_mmap is set and the file is not empty.  "" when nothing does.
OpenError(f, p, cfg) ==
    IF ~Exists(f, p) THEN "getsize"
    ELSE IF ~CanOpen(f, p) THEN "open"
    ELSE IF cfg.use_mmap /\ Len(f[p].content) > 0 /\ ~f[p].mmap_ok THEN "mmap"
    ELSE ""

\* calculate_file_hash(filepath) as one call: the digests, or the error raised.
calculate_file_hash(f, p, cfg, hf) ==
    IF OpenError(f, p, cfg) # "" THEN [ok |-> FALSE, hashes |-> <<>>]
    ELSE [ok |-> TRUE,
          hashes |-> HexDigests(ReadLoop(f[p].content, 0, cfg.buffer_size,
                                         NewAccumulators(hf)))]

\* The digest set of a content, computed in one piece: what a report is compared to.
DigestsOf(content, hf) == [a \in hf |-> HexDigest(a, HashUpdate(a, NewHash(a), content))]

\* ------------------------------------------------------------------ state
VARIABLES
    files,        \* the arguments of the run: a sequence of patterns
    fs,           \* the directory: name -> node
    dir,          \* the directory's scan order
    config,       \* performance.* and file_handling.ignore_errors
    hash_funcs,   \* self.hash_funcs: the enabled algorithms
    pc,           \* where the calling thread is
    tasks,        \* compute mode: the futures, in submission order
    pi,           \* compute mode: patterns expanded so far
    yielded,      \* compute mode: the futures as_completed has yielded, in order
    zi,           \* compute mode: pairs zip has produced
    reports,      \* compute mode: what was printed or logged, in order
    expanded_files, \* compare_files: the patterns, expanded
    hashes,       \* compare_files: path -> digest set
    ci,           \* compare_files: position of its current loop
    results,      \* compare_files: the comparison result being built
    error,        \* compare_files: the exception that left it, "" when none
    ncalls,       \* compare_files: calls of calculate_file_hash so far
    hash_files,   \* auto_verify_files: the manifests discovered
    mi,           \* auto_verify_files: manifests taken so far
    hash_entries, \* auto_verify_files: the entries of the manifest at hand
    ei,           \* auto_verify_files: entries of it taken so far
    success_count,
    fail_count,
    temp_hash_funcs, \* auto_verify_files: algorithms enabled for the run only
    outcomes      \* auto_verify_files: what was printed, in order

envVars == <<files, fs, dir, config, hash_funcs>>
computeVars == <<tasks, pi, yielded, zi, reports>>
compareVars == <<expanded_files, hashes, ci, results, error, ncalls>>
verifyVars == <<hash_files, mi, hash_entries, ei, success_count, fail_count,
                temp_hash_funcs, outcomes>>
vars == <<envVars, pc, computeVars, compareVars, verifyVars>>

ComputeIdle == tasks = <<>> /\ pi = 0 /\ yielded = <<>> /\ zi = 0 /\ reports = <<>>
NoResults == [reference |-> <<>>, comparisons |-> <<>>, all_match |-> TRUE]
CompareIdle ==
    /\ expanded_files = <<>> /\ hashes = <<>> /\ ci = 0
    /\ results = NoResults /\ error = "" /\ ncalls = 0
VerifyIdle ==
    /\ hash_files = <<>> /\ mi = 0 /\ hash_entries = <<>> /\ ei = 0
    /\ success_count = 0 /\ fail_count = 0 /\ temp_hash_funcs = {} /\ outcomes = <<>>

\* The names of the model's directory.
NameA == <<"a">>
NameB == <<"b">>
Star == <<"*">>

\* performance.buffer_size of the default configuration.
DefaultBufferSize == 8388608

\* The orders a directory holding the names of S can be scanned in.
Listings(S) == {d \in [1..Cardinality(S) -> S] : Range(d) = S}

\* ----------------------------------------- process_files, mode "info"
Completed(t) == t.st \in {"done", "failed"}
Running == {i \in DOMAIN tasks : tasks[i].st = "running"}
Queued == {i \in DOMAIN tasks : tasks[i].st = "queued"}

\* executor.submit(self.calculate_file_hash, filepath) for each match that is a file.
Submitted(f, d, pattern) ==
    LET m == SelectSeq(Glob(f, d, pattern), LAMBDA n : IsFile(f, n))
    IN [i \in DOMAIN m |-> [path |-> m[i], st |-> "queued", pos |-> 0,
                            acc |-> <<>>, result |-> <<>>]]

\* A pool whose tasks share one set of accumulators: the chunk a task has read
\* goes to the accumulators of every task that is running.
SharedUpdate(ts, t, chunk) ==
    [u \in DOMAIN ts |->
        IF ts[u].st = "running"
        THEN [ts[u] EXCEPT !.acc = UpdateAll(@, chunk),
                           !.pos = IF u = t THEN @ + Len(chunk) ELSE @]
        ELSE ts[u]]

\* The chunk a task has read goes to the accumulators of that task.
TaskUpdate(ts, t, chunk) ==
    [ts EXCEPT ![t].acc = UpdateAll(@, chunk), ![t].pos = @ + Len(chunk)]

\* if self.config['performance']['async_mode']: (there is no else branch)
Begin ==
    /\ pc = "start"
    /\ pc' = IF config.async_mode
             THEN (IF files = <<>> THEN "collect" ELSE "submit")
             ELSE "done"
    /\ UNCHANGED <<envVars, computeVars, compareVars, verifyVars>>

\* for pattern in files: one pattern expanded and its files submitted.
SubmitPattern ==
    /\ pc = "submit"
    /\ pi < Len(files)
    /\ tasks' = tasks \o Submitted(fs, dir, files[pi + 1])
    /\ pi' = pi + 1
    /\ pc' = IF pi + 1 = Len(files) THEN "collect" ELSE "submit"
    /\ UNCHANGED <<envVars, yielded, zi, reports, compareVars, verifyVars>>

\* A worker thread takes the oldest queued work item and enters
\* calculate_file_hash: getsize, the accumulators, open and mmap.
StartTask(t) ==
    /\ pc \in {"submit", "collect", "shutdown", "unwind"}
    /\ t \in Queued
    /\ \A u \in Queued : t <= u
    /\ Cardinality(Running) < config.thread_count
    /\ LET e == OpenError(fs, tasks[t].path, config)
       IN tasks' = [tasks EXCEPT
             ![t].st = IF e = "" THEN "running" ELSE "failed",
             ![t].acc = IF e = "getsize" THEN <<>> ELSE NewAccumulators(hash_funcs)]
    /\ UNCHANGED <<envVars, pc, pi, yielded, zi, reports, compareVars, verifyVars>>

\* One read of buffer_size bytes, and the update of every accumulator with it.
TaskRead(t) ==
    /\ t \in Running
    /\ tasks[t].pos < Len(fs[tasks[t].path].content)
    /\ tasks' = TaskUpdate(tasks, t,
                    ReadChunk(fs[tasks[t].path].content, tasks[t].pos, config.buffer_size))
    /\ UNCHANGED <<envVars, pc, pi, yielded, zi, reports, compareVars, verifyVars>>

\* The read at the end of the file returns nothing: the task returns its hexdigests.
TaskFinish(t) ==
    /\ t \in Running
    /\ tasks[t].pos = Len(fs[tasks[t].path].content)
    /\ tasks' = [tasks EXCEPT ![t].st = "done", ![t].result = HexDigests(tasks[t].acc)]
    /\ UNCHANGED <<envVars, pc, pi, yielded, zi, reports, compareVars, verifyVars>>

Unyielded == {i \in DOMAIN tasks : Completed(tasks[i]) /\ i \notin Range(yielded)}

\* as_completed has yielded every future: zip ends the loop.
CollectEnd ==
    /\ pc = "collect"
    /\ Len(yielded) = Len(tasks)
    /\ pc' = "shutdown"
    /\ UNCHANGED <<envVars, computeVars, compareVars, verifyVars>>

\* zip takes the next completed future, finds files exhausted and ends the loop:
\* the future it took is dropped.
CollectDiscard(t) ==
    /\ pc = "collect"
    /\ t \in Unyielded
    /\ zi = Len(files)
    /\ yielded' = Append(yielded, t)
    /\ pc' = "shutdown"
    /\ UNCHANGED <<envVars, tasks, pi, zi, reports, compareVars, verifyVars>>

\* The path zip pairs with the future it yields.
PairedPath(t) == files[zi + 1]

\* hashes = future.result(); self.format_output(filepath, hashes, ...)
CollectResult(t) ==
    /\ pc = "collect"
    /\ t \in Unyielded
    /\ zi < Len(files)
    /\ tasks[t].st = "done"
    /\ yielded' = Append(yielded, t)
    /\ zi' = zi + 1
    /\ reports' = Append(reports, [path |-> PairedPath(t), ok |-> TRUE,
                                   hashes |-> tasks[t].result, task |-> t])
    /\ UNCHANGED <<envVars, pc, tasks, pi, compareVars, verifyVars>>

\* except Exception: logging.error(...); if not ignore_errors: raise
CollectError(t) ==
    /\ pc = "collect"
    /\ t \in Unyielded
    /\ zi < Len(files)
    /\ tasks[t].st = "failed"
    /\ yielded' = Append(yielded, t)
    /\ zi' = zi + 1
    /\ reports' = Append(reports, [path |-> PairedPath(t), ok |-> FALSE,
                                   hashes |-> <<>>, task |-> t])
    /\ pc' = IF config.ignore_errors THEN "collect" ELSE "unwind"
    /\ UNCHANGED <<envVars, tasks, pi, compareVars, verifyVars>>

\* The with block's exit, executor.shutdown(wait=True), returns once every
\* submitted task has run; then process_files returns, or the error goes on.
Shutdown ==
    /\ pc \in {"shutdown", "unwind"}
    /\ \A i \in DOMAIN tasks : Completed(tasks[i])
    /\ pc' = IF pc = "unwind" THEN "raised" ELSE "done"
    /\ UNCHANGED <<envVars, computeVars, compareVars, verifyVars>>

\* Compute runs that differ in the arguments, the directory and the policy.
InitDispatch ==
    /\ files \in SeqsUpTo({NameA, NameB, Star}, MaxPatterns)
    /\ \E nb \in {FileNode(<<2, 1>>), LockedNode(<<1>>)} :
          fs \in {(NameA :> FileNode(<<1, 2>>)),
                  (NameA :> FileNode(<<1, 2>>)) @@ (NameB :> nb)}
    /\ config \in [async_mode : BOOLEAN, thread_count : {1, MaxWorkers},
                   buffer_size : {DefaultBufferSize}, ignore_errors : BOOLEAN,
                   use_mmap : {TRUE}]
    /\ config.async_mode \/ config.thread_count = 1
    /\ hash_funcs = setup_algorithms({MD5})

\* Compute runs that differ in the contents, the chunk size and the pool size.
InitPool ==
    /\ files = <<Star>>
    /\ \E ca \in Contents :
          fs = (NameA :> FileNode(ca)) @@ (NameB :> FileNode(<<2, 1>>))
    /\ config \in [async_mode : {TRUE}, thread_count : 1..MaxWorkers,
                   buffer_size : 1..MaxLen, ignore_errors : {FALSE},
                   use_mmap : BOOLEAN]
    /\ hash_funcs = setup_algorithms({MD5, SHA1})

InitCompute ==
    /\ InitDispatch \/ InitPool
    /\ dir \in Listings(DOMAIN fs)
    /\ pc = "start"
    /\ ComputeIdle /\ CompareIdle /\ VerifyIdle

NextCompute ==
    \/ Begin
    \/ SubmitPattern
    \/ \E t \in DOMAIN tasks : StartTask(t)
    \/ \E t \in DOMAIN tasks : TaskRead(t)
    \/ \E t \in DOMAIN tasks : TaskFinish(t)
    \/ CollectEnd
    \/ \E t \in DOMAIN tasks : CollectDiscard(t)
    \/ \E t \in DOMAIN tasks : CollectResult(t)
    \/ \E t \in DOMAIN tasks : CollectError(t)
    \/ Shutdown

SpecCompute == InitCompute /\ [][NextCompute]_vars

\* ------------------------------------------------- claims: compute mode
Finished == pc \in {"done", "raised"}
Reported(t) == \E i \in DOMAIN reports : reports[i].task = t

\* C1: every digest set the compute mode reports is reported with the path of
\* the file whose bytes produced it, whatever the order the workers complete in.
C1_ReportedWithOwnPath ==
    \A i \in DOMAIN reports :
        reports[i].ok => reports[i].path = tasks[reports[i].task].path

\* C5: when a hashing task has failed, a run with ignore_errors false ends by
\* propagating the failure, and a run with ignore_errors true ends normally with
\* the failure recorded and the outcome of every other dispatched file reported.
C5_FailurePolicy ==
    (Finished /\ \E t \in DOMAIN tasks : tasks[t].st = "failed") =>
        IF config.ignore_errors
        THEN pc = "done" /\ \A t \in DOMAIN tasks : Reported(t)
        ELSE pc = "raised"

\* C6: the digest set a task returns is the digest set of its own file's
\* content, for every pool size, chunk size and interleaving of the workers.
C6_DigestsIndependentOfPool ==
    \A t \in DOMAIN tasks :
        tasks[t].st = "done" =>
            tasks[t].result = DigestsOf(fs[tasks[t].path].content, hash_funcs)

\* C6 witness: a task has returned its digests while another task, on a file
\* of another content, was in the middle of its reads.
C6_Witness ==
    \E t, u \in DOMAIN tasks :
        /\ tasks[t].st = "done" /\ tasks[t].pos > config.buffer_size
        /\ tasks[u].st = "running" /\ tasks[u].pos > 0
        /\ tasks[u].pos < Len(fs[tasks[u].path].content)
        /\ fs[tasks[t].path].content # fs[tasks[u].path].content
        /\ config.thread_count > 1

\* C21: when a compute run returns, every file a hashing task was submitted
\* for has exactly one outcome reported, its digest set or its error, also
\* when a pattern has expanded to more files than there are arguments.
C21_EverySubmittedFileReported ==
    pc = "done" =>
        \A t \in DOMAIN tasks :
            Cardinality({i \in DOMAIN reports : reports[i].task = t}) = 1

\* C22: with ignore_errors false, once the failure of a task has been taken
\* from its future, no task that is still queued is started.
C22_NoStartAfterFailure ==
    [][pc = "unwind" =>
          \A t \in DOMAIN tasks : tasks[t].st = "queued" => tasks'[t].st = "queued"]_vars

\* C23: a compute run with async_mode false reports, as a run with async_mode
\* true does, the digest set of every file its patterns match that can be read.
C23_SyncReportsLikeAsync ==
    (pc = "done" /\ ~config.async_mode) =>
        \A k \in DOMAIN files :
            \A j \in DOMAIN Submitted(fs, dir, files[k]) :
                LET p == Submitted(fs, dir, files[k])[j].path
                IN CanOpen(fs, p) =>
                      \E i \in DOMAIN reports :
                          /\ reports[i].ok
                          /\ reports[i].hashes = DigestsOf(fs[p].content, hash_funcs)

\* ---------------------------------------------------------- compare_files
NameC == <<"c">>

\* The order the loops over self.hash_funcs take the algorithms in.
AlgorithmOrder == <<MD5, SHA1, SHA256>>

RECURSIVE ExpandAll(_, _, _)
\* for pattern in files: matched = glob.glob(pattern); expanded_files.extend(matched)
ExpandAll(f, d, patterns) ==
    IF patterns = <<>> THEN <<>>
    ELSE Glob(f, d, Head(patterns)) \o ExpandAll(f, d, Tail(patterns))

\* The check with its limit one too low.
InsufficientInputBelowOne(expanded) == Len(expanded) < 1

\* if len(expanded_files) < 2: raise ValueError
InsufficientInput(expanded) == Len(expanded) < 2

\* The reference taken from the other end of the list.
ReferenceFileLast(expanded) == expanded[Len(expanded)]

\* ref_file = expanded_files[0]
ReferenceFile(expanded) == expanded[1]

\* comparison['matches']: algorithm -> (reference digest == candidate digest)
MatchMap(hs, ref, file, hf) == [a \in hf |-> hs[ref][a] = hs[file][a]]

\* comparison['mismatches']: one description for each algorithm that does not
\* match, in the order of the loop over the algorithms.
Mismatches(matches, ref, file) ==
    LET bad == SelectSeq(AlgorithmOrder,
                         LAMBDA a : a \in DOMAIN matches /\ ~matches[a])
    IN [i \in DOMAIN bad |-> [file1 |-> ref, file2 |-> file, algo |-> bad[i]]]

\* The comparison entry filed under the reference's path.
ComparisonOfReference(hs, ref, file, hf) ==
    [file |-> ref, hashes |-> hs[file],
     matches |-> MatchMap(hs, ref, file, hf),
     mismatches |-> Mismatches(MatchMap(hs, ref, file, hf), ref, file)]

\* The comparison entry of one candidate.
Comparison(hs, ref, file, hf) ==
    [file |-> file, hashes |-> hs[file],
     matches |-> MatchMap(hs, ref, file, hf),
     mismatches |-> Mismatches(MatchMap(hs, ref, file, hf), ref, file)]

\* all_match overwritten by each candidate, so that the last one decides it.
AllMatchOfLast(all_match, matches) == \A a \in DOMAIN matches : matches[a]

\* results['all_match'] after a candidate: any false match sets it to False.
AllMatchAfter(all_match, matches) ==
    all_match /\ \A a \in DOMAIN matches : matches[a]

\* The patterns are expanded, and fewer than 2 paths end the call.
CompareExpand ==
    /\ pc = "start"
    /\ expanded_files' = ExpandAll(fs, dir, files)
    /\ IF InsufficientInput(expanded_files')
       THEN pc' = "raised" /\ error' = "ValueError"
       ELSE pc' = "hashing" /\ error' = ""
    /\ UNCHANGED <<envVars, hashes, ci, results, ncalls, computeVars, verifyVars>>

\* for file in expanded_files: hashes[file] = self.calculate_file_hash(file),
\* and on an error: raise unless ignore_errors, else continue.
CompareHash ==
    /\ pc = "hashing"
    /\ ci < Len(expanded_files)
    /\ LET file == expanded_files[ci + 1]
           r == calculate_file_hash(fs, file, config, hash_funcs)
       IN /\ ncalls' = ncalls + 1
          /\ ci' = ci + 1
          /\ IF r.ok
             THEN /\ hashes' = (file :> r.hashes) @@ hashes
                  /\ UNCHANGED <<pc, error>>
             ELSE /\ UNCHANGED hashes
                  /\ IF config.ignore_errors THEN UNCHANGED <<pc, error>>
                     ELSE pc' = "raised" /\ error' = "IOError"
    /\ UNCHANGED <<envVars, expanded_files, results, computeVars, verifyVars>>

\* results['reference'] = {'file': ref_file, 'hashes': hashes[ref_file]}
CompareReference ==
    /\ pc = "hashing"
    /\ ci = Len(expanded_files)
    /\ LET ref_file == ReferenceFile(expanded_files)
       IN IF ref_file \in DOMAIN hashes
          THEN /\ results' = [results EXCEPT
                     !.reference = [file |-> ref_file, hashes |-> hashes[ref_file]]]
               /\ pc' = "comparing" /\ ci' = 1
               /\ UNCHANGED error
          ELSE /\ pc' = "raised" /\ error' = "KeyError"
               /\ UNCHANGED <<results, ci>>
    /\ UNCHANGED <<envVars, expanded_files, hashes, ncalls, computeVars, verifyVars>>

\* for file in expanded_files[1:]: one candidate, skipped when it has no digests.
CompareCandidate ==
    /\ pc = "comparing"
    /\ ci < Len(expanded_files)
    /\ LET file == expanded_files[ci + 1]
           ref_file == results.reference.file
           c == Comparison(hashes, ref_file, file, hash_funcs)
       IN IF file \in DOMAIN hashes
          THEN results' = [results EXCEPT
                   !.comparisons = Append(@, c),
                   !.all_match = AllMatchAfter(@, c.matches)]
          ELSE UNCHANGED results
    /\ ci' = ci + 1
    /\ UNCHANGED <<envVars, pc, expanded_files, hashes, error, ncalls,
                   computeVars, verifyVars>>

\* return results
CompareReturn ==
    /\ pc = "comparing"
    /\ ci = Len(expanded_files)
    /\ pc' = "returned"
    /\ UNCHANGED <<envVars, compareVars, computeVars, verifyVars>>

\* The configurations of the model: the algorithms configured enabled.
AlgorithmConfigs == {{}, {MD5}, {MD5, SHA1}}

\* Comparisons that differ in the contents of the two files.
InitCompareContents ==
    /\ files \in {<<NameA, NameB>>, <<Star>>}
    /\ \E ca \in Contents :
          fs = (NameA :> FileNode(ca)) @@ (NameB :> FileNode(<<2, 1>>))
    /\ config \in [async_mode : {TRUE}, thread_count : {1},
                   buffer_size : 1..MaxLen, ignore_errors : {FALSE},
                   use_mmap : {TRUE}]
    /\ \E enabled \in AlgorithmConfigs : hash_funcs = setup_algorithms(enabled)

\* Comparisons that differ in the arguments, the directory and the policy.
InitCompareArgs ==
    /\ files \in SeqsUpTo({NameA, NameB, NameC, Star}, MaxPatterns)
    /\ \E cb \in {<<1, 2>>, <<2, 1>>}, nc \in {DirNode, LockedNode(<<1>>)} :
          fs \in {(NameA :> FileNode(<<1, 2>>)) @@ (NameB :> FileNode(cb)),
                  (NameA :> FileNode(<<1, 2>>)) @@ (NameB :> FileNode(cb))
                      @@ (NameC :> nc)}
    /\ config \in [async_mode : {TRUE}, thread_count : {1},
                   buffer_size : {DefaultBufferSize}, ignore_errors : BOOLEAN,
                   use_mmap : {TRUE}]
    /\ \E enabled \in {{}, {MD5, SHA1}} : hash_funcs = setup_algorithms(enabled)

InitCompare ==
    /\ InitCompareContents \/ InitCompareArgs
    /\ dir \in Listings(DOMAIN fs)
    /\ pc = "start"
    /\ ComputeIdle /\ CompareIdle /\ VerifyIdle

NextCompare ==
    \/ CompareExpand
    \/ CompareHash
    \/ CompareReference
    \/ CompareCandidate
    \/ CompareReturn

SpecCompare == InitCompare /\ [][NextCompare]_vars

\* ------------------------------------------------ claims: compare_files
Comparisons == {results.comparisons[i] : i \in DOMAIN results.comparisons}
FalseMatches(c) == {a \in DOMAIN c.matches : ~c.matches[a]}

\* C7: all_match is true iff every entry of every candidate's matches map is
\* true, and a candidate's mismatches list holds exactly one description for
\* each of its false matches.
C7_AllMatchIffAllTrue ==
    pc \in {"comparing", "returned"} =>
        /\ results.all_match <=> \A c \in Comparisons : FalseMatches(c) = {}
        /\ \A c \in Comparisons :
              /\ Len(c.mismatches) = Cardinality(FalseMatches(c))
              /\ {c.mismatches[i].algo : i \in DOMAIN c.mismatches} = FalseMatches(c)

\* C7 witness: a result is returned in which a candidate that does not match
\* is followed by one that matches.
C7_Witness ==
    /\ pc = "returned"
    /\ \E i, j \in DOMAIN results.comparisons :
          /\ i < j
          /\ FalseMatches(results.comparisons[i]) # {}
          /\ FalseMatches(results.comparisons[j]) = {}
          /\ DOMAIN results.comparisons[j].matches # {}

\* C8: a candidate with the content of the reference has every match true (and
\* all_match is true when every candidate is such a copy); a candidate whose
\* content differs has every match false and a mismatch description, and
\* all_match is then false.
C8_CopyMatchesChangeDoesNot ==
    pc = "returned" =>
        LET ref == fs[results.reference.file].content
        IN /\ \A c \in Comparisons :
                IF fs[c.file].content = ref
                THEN \A a \in DOMAIN c.matches : c.matches[a]
                ELSE /\ \A a \in DOMAIN c.matches : ~c.matches[a]
                     /\ Len(c.mismatches) >= 1
                     /\ ~results.all_match
           /\ (\A c \in Comparisons : fs[c.file].content = ref) => results.all_match

\* C9: patterns that resolve to fewer than 2 paths end compare_files with the
\* insufficient-input error, before any file is hashed.
C9_InsufficientInputRaises ==
    (pc # "start" /\ Len(ExpandAll(fs, dir, files)) < 2) =>
        pc = "raised" /\ error = "ValueError" /\ ncalls = 0

\* C9 witness: two patterns, one of which matches no file, have ended the call.
C9_Witness ==
    /\ pc = "raised" /\ error = "ValueError"
    /\ Len(files) = 2 /\ Len(expanded_files) = 1

\* C10: the reference of a comparison result is the first path of the expanded
\* list, with the digests of that file.
C10_ReferenceIsFirst ==
    pc \in {"comparing", "returned"} =>
        /\ results.reference.file = ExpandAll(fs, dir, files)[1]
        /\ results.reference.hashes =
              DigestsOf(fs[ExpandAll(fs, dir, files)[1]].content, hash_funcs)

\* C10 witness: the reference of a returned result is b, listed first, though
\* a is in the list too and a's content is no longer than b's.
C10_Witness ==
    /\ pc = "returned"
    /\ results.reference.file = NameB
    /\ expanded_files[Len(expanded_files)] = NameA
    /\ Len(fs[NameA].content) <= Len(fs[NameB].content)
    /\ hash_funcs # {}

\* C11: when every path of the expanded list can be hashed, the returned
\* result holds one comparison for each path after the first, in the order of
\* the list: n paths give n - 1 comparisons.
C11_OneComparisonPerCandidate ==
    (/\ pc = "returned"
     /\ \A i \in DOMAIN expanded_files :
           calculate_file_hash(fs, expanded_files[i], config, hash_funcs).ok) =>
        /\ Len(results.comparisons) = Len(ExpandAll(fs, dir, files)) - 1
        /\ \A i \in DOMAIN results.comparisons :
              results.comparisons[i].file = ExpandAll(fs, dir, files)[i + 1]

\* C11 witness: a result with two comparisons is returned for a list of three
\* paths in which one file is listed twice.
C11_Witness ==
    /\ pc = "returned"
    /\ Len(expanded_files) = 3
    /\ Len(results.comparisons) = 2
    /\ results.comparisons[1].file # results.comparisons[2].file
    /\ \E i, j \in DOMAIN expanded_files : i < j /\ expanded_files[i] = expanded_files[j]

\* C24: with ignore_errors true, compare_files on two or more paths returns a
\* comparison result, whichever of the paths cannot be hashed, the first one
\* (the reference) included.
C24_CompareContainsFailures ==
    (/\ config.ignore_errors
     /\ pc \in {"returned", "raised"}
     /\ Len(expanded_files) >= 2) => pc = "returned"

\* C25: with no algorithm enabled, compare_files does not return a result: the
\* run is aborted with an error.
C25_NoAlgorithmAborts ==
    hash_funcs = {} => pc # "returned"

\* -------------------------------------------------------- parse_hash_file
\* What str.strip() and str.split() take for whitespace.  A text file is the
\* sequence of its lines, without their line ends.
Whitespace == {" ", "\t"}

\* The number of whitespace characters s starts with.
LeadingSpace(s) ==
    IF \E i \in DOMAIN s : s[i] \notin Whitespace
    THEN (CHOOSE i \in DOMAIN s :
             s[i] \notin Whitespace /\ \A j \in 1..(i - 1) : s[j] \in Whitespace) - 1
    ELSE Len(s)

\* The length of the token s starts with, for s that starts with none of Whitespace.
TokenLen(s) ==
    IF \E i \in DOMAIN s : s[i] \in Whitespace
    THEN (CHOOSE i \in DOMAIN s :
             s[i] \in Whitespace /\ \A j \in 1..(i - 1) : s[j] \notin Whitespace) - 1
    ELSE Len(s)

Reverse(s) == [i \in DOMAIN s |-> s[Len(s) + 1 - i]]

\* line.strip()
Strip(s) ==
    LET t == Drop(s, LeadingSpace(s))
    IN SubSeq(t, 1, Len(t) - LeadingSpace(Reverse(t)))

RECURSIVE Split(_)
\* line.split(): the tokens between runs of whitespace.
Split(s) ==
    LET t == Drop(s, LeadingSpace(s))
    IN IF t = <<>> THEN <<>>
       ELSE <<SubSeq(t, 1, TokenLen(t))>> \o Split(Drop(t, TokenLen(t)))

RECURSIVE Join(_)
\* ' '.join(parts)
Join(parts) ==
    IF parts = <<>> THEN <<>>
    ELSE IF Len(parts) = 1 THEN parts[1]
    ELSE parts[1] \o <<" ">> \o Join(Tail(parts))

\* ' ' in line
HasSpace(s) == \E i \in DOMAIN s : s[i] = " "

\* The index of the dot os.path.splitext splits a name at, 0 when it has none:
\* the last dot, unless only dots come before it.
ExtDot(p) ==
    LET dots == {i \in DOMAIN p : p[i] = "." /\ \E j \in 1..(i - 1) : p[j] # "."}
    IN IF dots = {} THEN 0 ELSE CHOOSE i \in dots : \A j \in dots : j <= i

\* The root taken up to the first dot of the name.
SplitExtRootAtFirstDot(p) ==
    IF \E i \in DOMAIN p : p[i] = "."
    THEN SubSeq(p, 1, (CHOOSE i \in DOMAIN p : p[i] = "." /\ \A j \in 1..(i - 1) : p[j] # ".") - 1)
    ELSE p

\* os.path.splitext(p)[0] and os.path.splitext(p)[1]
SplitExtRoot(p) == IF ExtDot(p) = 0 THEN p ELSE SubSeq(p, 1, ExtDot(p) - 1)
SplitExtExt(p) == IF ExtDot(p) = 0 THEN <<>> ELSE Drop(p, ExtDot(p) - 1)

\* The declared hash kept as the manifest writes it.
DeclaredHashAsWritten(token) == token

\* hash_value.lower() and line.lower()
DeclaredHash(token) == Lower(token)

\* A line "hash filename" or "hash *filename".
ParseLine(line) ==
    LET parts == Split(line)
        filename == Join(Tail(parts))
        binary == StartsWith(filename, <<"*">>)
    IN [filename |-> IF binary THEN Drop(filename, 1) ELSE filename,
        hash |-> DeclaredHash(Head(parts)),
        binary |-> binary]

\* lines = [line.strip() for line in f if line.strip()]
NonBlankLines(text) ==
    LET stripped == [i \in DOMAIN text |-> Strip(text[i])]
    IN SelectSeq(stripped, LAMBDA l : l # <<>>)

\* The entries of a manifest, from its lines and its own name.
ParseEntries(text, hash_file) ==
    LET lines == NonBlankLines(text)
    IN IF Len(lines) = 1
       THEN IF ~HasSpace(lines[1])
            THEN <<[filename |-> SplitExtRoot(hash_file),
                    hash |-> DeclaredHash(lines[1]),
                    binary |-> FALSE]>>
            ELSE <<ParseLine(lines[1])>>
       ELSE LET kept == SelectSeq(lines, HasSpace)
            IN [i \in DOMAIN kept |-> ParseLine(kept[i])]

\* parse_hash_file(hash_file): the entries, or the error of open() raised again.
parse_hash_file(f, hash_file) ==
    IF ~CanOpen(f, hash_file) THEN [ok |-> FALSE, entries |-> <<>>]
    ELSE [ok |-> TRUE, entries |-> ParseEntries(f[hash_file].text, hash_file)]

\* ------------------------------------------------------ auto_verify_files
\* all_algorithms = {name.upper() for name in hashlib.algorithms_available}
all_algorithms == {Upper(n) : n \in AlgorithmsAvailable}

RECURSIVE Discover(_, _, _)
\* for algo in all_algorithms: hash_files.extend(glob.glob(f"*.{algo.lower()}")),
\* the set being taken in the order algos.
Discover(f, d, algos) ==
    IF algos = <<>> THEN <<>>
    ELSE Glob(f, d, <<"*", ".">> \o Lower(Head(algos))) \o Discover(f, d, Tail(algos))

\* algo = os.path.splitext(hash_file)[1][1:].upper()
ManifestAlgo(hash_file) == Upper(Drop(SplitExtExt(hash_file), 1))

\* The algorithm of a manifest is neither enabled nor a constructor of hashlib.
Unsupported(algo, hf) == algo \notin hf /\ ~HasAttr(Lower(algo))

\* The accumulator's hexdigest after the read loop over the target, lower-cased.
ActualValue(f, name, algo, buf) ==
    Lower(HexDigest(algo, ReadLoop(f[name].content, 0, buf, NewAccumulators({algo}))[algo]))

\* A check for the target that never finds it missing.
TargetNeverMissing(f, name) == FALSE

\* if not os.path.exists(entry['filename'])
TargetMissing(f, name) == ~Exists(f, name)

\* What the loop body does with one entry: "missing", "error" when open() of
\* the target raises, else "matched" or "mismatched".
EntryStatus(f, entry, algo, buf) ==
    IF TargetMissing(f, entry.filename) THEN "missing"
    ELSE IF ~CanOpen(f, entry.filename) THEN "error"
    ELSE IF ActualValue(f, entry.filename, algo, buf) = entry.hash THEN "matched"
    ELSE "mismatched"

Outcome(hash_file, index, filename, status) ==
    [manifest |-> hash_file, entry |-> index, filename |-> filename, status |-> status]

\* The manifests are discovered; with none, the run ends at once.
VerifyDiscover ==
    /\ pc = "start"
    /\ \E algos \in Listings(all_algorithms) : hash_files' = Discover(fs, dir, algos)
    /\ pc' = IF hash_files' = <<>> THEN "done" ELSE "manifests"
    /\ UNCHANGED <<envVars, mi, hash_entries, ei, success_count, fail_count,
                   temp_hash_funcs, outcomes, computeVars, compareVars>>

\* for hash_file in hash_files: the algorithm of the next manifest is not
\* supported: a warning, and on to the next manifest.
VerifySkipUnsupported ==
    /\ pc = "manifests"
    /\ mi < Len(hash_files)
    /\ Unsupported(ManifestAlgo(hash_files[mi + 1]), hash_funcs)
    /\ outcomes' = Append(outcomes, Outcome(hash_files[mi + 1], 0, <<>>, "unsupported"))
    /\ mi' = mi + 1
    /\ UNCHANGED <<envVars, pc, hash_files, hash_entries, ei, success_count, fail_count,
                   temp_hash_funcs, computeVars, compareVars>>

\* The parse step that enables the manifest's algorithm in self.hash_funcs
\* itself, where the code enables it in temp_hash_funcs.
VerifyParseEnabling ==
    /\ pc = "manifests"
    /\ mi < Len(hash_files)
    /\ LET hash_file == hash_files[mi + 1]
           algo == ManifestAlgo(hash_file)
           parsed == parse_hash_file(fs, hash_file)
       IN /\ ~Unsupported(algo, hash_funcs)
          /\ hash_funcs' = hash_funcs \cup {algo}
          /\ IF parsed.ok
             THEN /\ hash_entries' = parsed.entries
                  /\ ei' = 0
                  /\ pc' = "entries"
                  /\ UNCHANGED <<mi, fail_count, outcomes>>
             ELSE /\ fail_count' = fail_count + 1
                  /\ outcomes' = Append(outcomes, Outcome(hash_file, 0, <<>>, "error"))
                  /\ mi' = mi + 1
                  /\ UNCHANGED <<pc, hash_entries, ei>>
    /\ UNCHANGED <<files, fs, dir, config, temp_hash_funcs, hash_files, success_count,
                   computeVars, compareVars>>

\* The next manifest is parsed; an error of the parse is caught and counted.
VerifyParse ==
    /\ pc = "manifests"
    /\ mi < Len(hash_files)
    /\ LET hash_file == hash_files[mi + 1]
           algo == ManifestAlgo(hash_file)
           parsed == parse_hash_file(fs, hash_file)
       IN /\ ~Unsupported(algo, hash_funcs)
          /\ temp_hash_funcs' = IF algo \notin hash_funcs
                                THEN temp_hash_funcs \cup {algo} ELSE temp_hash_funcs
          /\ IF parsed.ok
             THEN /\ hash_entries' = parsed.entries
                  /\ ei' = 0
                  /\ pc' = "entries"
                  /\ UNCHANGED <<mi, fail_count, outcomes>>
             ELSE /\ fail_count' = fail_count + 1
                  /\ outcomes' = Append(outcomes, Outcome(hash_file, 0, <<>>, "error"))
                  /\ mi' = mi + 1
                  /\ UNCHANGED <<pc, hash_entries, ei>>
    /\ UNCHANGED <<envVars, hash_files, success_count, computeVars, compareVars>>

\* for entry in hash_entries: one entry.  An error leaves the loop for the
\* except clause of the manifest, which counts one failure.
VerifyEntry ==
    /\ pc = "entries"
    /\ ei < Len(hash_entries)
    /\ LET hash_file == hash_files[mi + 1]
           entry == hash_entries[ei + 1]
           status == EntryStatus(fs, entry, ManifestAlgo(hash_file), config.buffer_size)
       IN /\ outcomes' = Append(outcomes, Outcome(hash_file, ei + 1, entry.filename, status))
          /\ success_count' = IF status = "matched" THEN success_count + 1 ELSE success_count
          /\ fail_count' = IF status = "matched" THEN fail_count ELSE fail_count + 1
          /\ IF status = "error"
             THEN pc' = "manifests" /\ mi' = mi + 1 /\ UNCHANGED ei
             ELSE ei' = ei + 1 /\ UNCHANGED <<pc, mi>>
    /\ UNCHANGED <<envVars, hash_files, hash_entries, temp_hash_funcs,
                   computeVars, compareVars>>

\* The entries of the manifest are exhausted.
VerifyManifestDone ==
    /\ pc = "entries"
    /\ ei = Len(hash_entries)
    /\ pc' = "manifests"
    /\ mi' = mi + 1
    /\ UNCHANGED <<envVars, hash_files, hash_entries, ei, success_count, fail_count,
                   temp_hash_funcs, outcomes, computeVars, compareVars>>

\* temp_hash_funcs.clear() and the summary line.
VerifySummary ==
    /\ pc = "manifests"
    /\ mi = Len(hash_files)
    /\ temp_hash_funcs' = {}
    /\ pc' = "done"
    /\ UNCHANGED <<envVars, hash_files, mi, hash_entries, ei, success_count, fail_count,
                   outcomes, computeVars, compareVars>>

\* Most lines of a manifest of the model.
MaxEntries == 2

NameD == <<"d">>
ManifestName(stem, algo) == stem \o <<".">> \o Lower(algo)
TextNode(text) ==
    [kind |-> "file", readable |-> TRUE, mmap_ok |-> TRUE, content |-> <<>>, text |-> text]
LockedTextNode(text) ==
    [kind |-> "file", readable |-> FALSE, mmap_ok |-> TRUE, content |-> <<>>, text |-> text]

\* The hashes a manifest of the model declares for a content: its digest as
\* hexdigest spells it, the same in upper case, and the digest of other bytes.
DeclaredFor(content, algo) ==
    {HexDigest(algo, HashUpdate(algo, NewHash(algo), content)),
     Upper(HexDigest(algo, HashUpdate(algo, NewHash(algo), content))),
     HexDigest(algo, HashUpdate(algo, NewHash(algo), content \o <<1>>))}

\* The GNU-form lines of a manifest of the model: for a, present with content,
\* for b, absent, and for d, a directory.
ManifestLines(content, algo) ==
    {h \o <<" ", " ">> \o NameA : h \in DeclaredFor(content, algo)}
    \cup {HexDigest(algo, HashUpdate(algo, NewHash(algo), content)) \o <<" ", "*">> \o NameA,
          HexDigest(algo, NewHash(algo)) \o <<" ", "*">> \o NameB,
          HexDigest(algo, NewHash(algo)) \o <<" ", " ">> \o NameD}

\* The manifests a directory of the model holds beside m.md5: a.sha1 with a
\* bare hash, a.sm3, k.md5 that cannot be opened, a.sha1 with two lines that
\* give no entry.
OtherManifests(content) ==
    {<<>>}
    \cup {(ManifestName(NameA, SHA1) :> TextNode(<<h>>)) : h \in DeclaredFor(content, SHA1)}
    \cup {(ManifestName(NameA, SM3) :> TextNode(<<<<"0", "0">>>>)),
          (ManifestName(<<"k">>, MD5) :> LockedTextNode(<<<<"0", "0">>>>)),
          (ManifestName(NameA, SHA1) :> TextNode(<<<<"0", "0">>, <<"0", "0">>>>))}

\* One scan order of the names of the model; a directory is scanned in it or
\* in its reverse.
ScanOrder ==
    <<ManifestName(NameA, SM3), NameA, ManifestName(<<"m">>, MD5), NameD,
      ManifestName(NameA, SHA1), ManifestName(<<"k">>, MD5)>>

InitVerify ==
    /\ files = <<>>
    /\ \E text \in SeqsUpTo(ManifestLines(<<1, 2>>, MD5), MaxEntries),
          other \in OtherManifests(<<1, 2>>) :
          fs = (NameA :> FileNode(<<1, 2>>)) @@ (NameD :> DirNode)
               @@ (IF text = <<>> THEN <<>> ELSE (ManifestName(<<"m">>, MD5) :> TextNode(text)))
               @@ other
    /\ config = [async_mode |-> TRUE, thread_count |-> 1, buffer_size |-> 1,
                 ignore_errors |-> FALSE, use_mmap |-> TRUE]
    /\ \E enabled \in AlgorithmConfigs : hash_funcs = setup_algorithms(enabled)
    /\ LET present == SelectSeq(ScanOrder, LAMBDA n : n \in DOMAIN fs)
       IN dir \in {present, Reverse(present)}
    /\ pc = "start"
    /\ ComputeIdle /\ CompareIdle /\ VerifyIdle

NextVerify ==
    \/ VerifyDiscover
    \/ VerifySkipUnsupported
    \/ VerifyParse
    \/ VerifyEntry
    \/ VerifyManifestDone
    \/ VerifySummary

SpecVerify == InitVerify /\ [][NextVerify]_vars

\* -------------------------------------------- claims: auto_verify_files
\* The lines of a manifest that give an entry each, and the hash the i-th of
\* them declares, as the manifest writes it.
EntryLines(text) ==
    IF Len(NonBlankLines(text)) = 1 THEN NonBlankLines(text)
    ELSE SelectSeq(NonBlankLines(text), HasSpace)
DeclaredToken(m, i) == Head(Split(EntryLines(fs[m].text)[i]))

\* The digest of a whole content under one algorithm.
DigestOf(content, algo) == HexDigest(algo, HashUpdate(algo, NewHash(algo), content))

OutcomesWith(S) == {k \in DOMAIN outcomes : outcomes[k].status \in S}

\* C2: an entry whose target exists and can be read is classified matched, and
\* counted as a success, iff the digest of the target under the manifest's
\* algorithm equals the declared hash in lower case; otherwise it is
\* classified mismatched and counted as a failure.
C2_MatchedIffDigestEqual ==
    /\ \A k \in DOMAIN outcomes :
          (outcomes[k].entry > 0 /\ CanOpen(fs, outcomes[k].filename)) =>
              /\ outcomes[k].status \in {"matched", "mismatched"}
              /\ outcomes[k].status = "matched" <=>
                    DigestOf(fs[outcomes[k].filename].content,
                             ManifestAlgo(outcomes[k].manifest))
                    = Lower(DeclaredToken(outcomes[k].manifest, outcomes[k].entry))
    /\ success_count = Cardinality(OutcomesWith({"matched"}))
    /\ fail_count >= Cardinality(OutcomesWith({"mismatched"}))

\* C2 witness: a run has classified one entry matched whose hash the manifest
\* declares in upper case, and another entry mismatched.
C2_Witness ==
    /\ pc = "done"
    /\ \E k \in OutcomesWith({"matched"}) :
          DeclaredToken(outcomes[k].manifest, outcomes[k].entry)
              # Lower(DeclaredToken(outcomes[k].manifest, outcomes[k].entry))
    /\ OutcomesWith({"mismatched"}) # {}

\* C3: the step that takes an entry whose target does not exist records a
\* missing-target outcome and one failure, raises nothing, and leaves the run
\* at the next entry of the same manifest with every manifest still to come.
C3_MissingTargetContinues ==
    [][(/\ pc = "entries"
        /\ ei < Len(hash_entries)
        /\ ~Exists(fs, hash_entries[ei + 1].filename))
       => /\ outcomes' = Append(outcomes,
                Outcome(hash_files[mi + 1], ei + 1, hash_entries[ei + 1].filename, "missing"))
          /\ fail_count' = fail_count + 1
          /\ success_count' = success_count
          /\ pc' = "entries" /\ ei' = ei + 1
          /\ mi' = mi /\ hash_entries' = hash_entries /\ hash_files' = hash_files]_vars

\* C3 witness: after a missing-target outcome the run has gone on to a later
\* entry of the manifest and to a later manifest.
C3_Witness ==
    \E k, l, n \in DOMAIN outcomes :
        /\ k < l /\ l < n
        /\ outcomes[k].status = "missing"
        /\ outcomes[l].manifest = outcomes[k].manifest
        /\ outcomes[l].entry = outcomes[k].entry + 1
        /\ outcomes[n].manifest # outcomes[k].manifest
        /\ outcomes[n].status = "matched"

\* C4: an error at one entry stops neither the remaining entries of the
\* manifest nor the remaining manifests: when the run ends, every entry of
\* every manifest that was parsed has its outcome.
C4_ErrorDoesNotStopEntries ==
    pc = "done" =>
        \A i \in DOMAIN hash_files :
            LET m == hash_files[i]
            IN (~Unsupported(ManifestAlgo(m), hash_funcs) /\ CanOpen(fs, m)) =>
                  \A e \in DOMAIN ParseEntries(fs[m].text, m) :
                      \E k \in DOMAIN outcomes :
                          outcomes[k].manifest = m /\ outcomes[k].entry = e

\* ------------------------------------ parse_hash_file, called on its own
\* A GNU-form line: the hash, a space, a space or the binary marker, the name.
GnuLine(h, binary, name) ==
    h \o <<" ">> \o (IF binary THEN <<"*">> ELSE <<" ">>) \o name

\* A BSD-form line: ALGO (filename) = hash
BsdLine(algo, name, h) ==
    algo \o <<" ", "(">> \o name \o <<")", " ", "=", " ">> \o h

\* The hashes and the target names the lines of the model are made of.
LineHashes == {<<"A", "B">>, <<"a", "b">>}
LineNames == {NameA, <<"a", " ", "b">>, <<"a", " ", " ", "b">>}

\* The lines of the model: GNU-form and BSD-form lines, a bare hash, a bare
\* hash between blanks, a hash and a name with a tab between, blank lines.
ParseLines ==
    {GnuLine(h, binary, name) : h \in LineHashes, binary \in BOOLEAN, name \in LineNames}
    \cup {BsdLine(MD5, NameA, <<"a", "b">>)}
    \cup LineHashes
    \cup {<<" ", "A", "B", " ">>, <<"a", "b", "\t", "a">>, <<>>, <<" ">>}

\* The manifests parse_hash_file is called on: what the discovery of
\* auto_verify_files can find.
ParseNames == {ManifestName(<<"m">>, MD5), ManifestName(<<"a", ".", "b">>, SHA1)}

\* hash_entries = self.parse_hash_file(hash_file), returning.
ParseReturn ==
    /\ pc = "start"
    /\ parse_hash_file(fs, files[1]).ok
    /\ hash_entries' = parse_hash_file(fs, files[1]).entries
    /\ pc' = "returned"
    /\ UNCHANGED <<envVars, computeVars, compareVars, hash_files, mi, ei,
                   success_count, fail_count, temp_hash_funcs, outcomes>>

\* open() of the manifest raises, and parse_hash_file raises it again.
ParseRaise ==
    /\ pc = "start"
    /\ ~parse_hash_file(fs, files[1]).ok
    /\ error' = "IOError"
    /\ pc' = "raised"
    /\ UNCHANGED <<envVars, computeVars, expanded_files, hashes, ci, results, ncalls,
                   verifyVars>>

InitParse ==
    /\ \E hash_file \in ParseNames :
          /\ files = <<hash_file>>
          /\ \/ \E text \in SeqsUpTo(ParseLines, MaxEntries) :
                   fs = (hash_file :> TextNode(text))
             \/ fs = (hash_file :> LockedTextNode(<<>>))
             \/ fs = (NameA :> FileNode(<<>>))
    /\ dir \in Listings(DOMAIN fs)
    /\ config = [async_mode |-> TRUE, thread_count |-> 1, buffer_size |-> 1,
                 ignore_errors |-> FALSE, use_mmap |-> TRUE]
    /\ hash_funcs = setup_algorithms({MD5})
    /\ pc = "start"
    /\ ComputeIdle /\ CompareIdle /\ VerifyIdle

NextParse ==
    \/ ParseReturn
    \/ ParseRaise

SpecParse == InitParse /\ [][NextParse]_vars

\* ------------------------------------------------ claims: parse_hash_file
\* The lines of the manifest that are not blank, as the file writes them.
IsBlank(line) == \A i \in DOMAIN line : line[i] \in Whitespace
WrittenLines == SelectSeq(fs[files[1]].text, LAMBDA l : ~IsBlank(l))

GnuForms == [h : LineHashes, binary : BOOLEAN, name : LineNames]

\* C12: of a manifest whose lines are GNU-form lines, each line yields one
\* entry: its hash is the first token lower-cased, its filename the text after
\* the separator (after the `*` when there is one), and its binary marker says
\* whether the line has the `*`.
C12_GnuLineParsed ==
    (/\ pc = "returned"
     /\ WrittenLines # <<>>
     /\ \A i \in DOMAIN WrittenLines :
           \E g \in GnuForms : WrittenLines[i] = GnuLine(g.h, g.binary, g.name)) =>
        /\ Len(hash_entries) = Len(WrittenLines)
        /\ \A i \in DOMAIN WrittenLines : \A g \in GnuForms :
              WrittenLines[i] = GnuLine(g.h, g.binary, g.name) =>
                  hash_entries[i] = [filename |-> g.name, hash |-> Lower(g.h),
                                     binary |-> g.binary]

\* C13: of a manifest whose lines are BSD-form lines `ALGO (filename) = hash`,
\* each line yields one entry: its filename is the text inside the
\* parentheses, its hash the text after `= `, and its binary marker is false.
C13_BsdLineParsed ==
    (/\ pc = "returned"
     /\ WrittenLines # <<>>
     /\ \A i \in DOMAIN WrittenLines : WrittenLines[i] = BsdLine(MD5, NameA, <<"a", "b">>)) =>
        /\ Len(hash_entries) = Len(WrittenLines)
        /\ \A i \in DOMAIN hash_entries :
              hash_entries[i] = [filename |-> NameA, hash |-> <<"a", "b">>, binary |-> FALSE]

\* C14: a manifest with exactly one non-blank line, and no whitespace within
\* it, yields exactly one entry: its hash is the line lower-cased, its binary
\* marker is false, and its filename is the manifest's path without the
\* trailing algorithm extension, a.b.sha1 giving a.b.
C14_BareHashNamesTarget ==
    (/\ pc = "returned"
     /\ Len(WrittenLines) = 1
     /\ \A i \in DOMAIN Strip(WrittenLines[1]) : Strip(WrittenLines[1])[i] \notin Whitespace) =>
        /\ Len(hash_entries) = 1
        /\ hash_entries[1].hash = Lower(Strip(WrittenLines[1]))
        /\ hash_entries[1].binary = FALSE
        /\ \E algo \in all_algorithms :
              files[1] = hash_entries[1].filename \o <<".">> \o Lower(algo)

\* C14 witness: the manifest a.b.sha1, holding a hash in upper case between
\* blanks and a blank line, has been parsed to the one entry for a.b.
C14_Witness ==
    /\ pc = "returned"
    /\ files[1] = ManifestName(<<"a", ".", "b">>, SHA1)
    /\ Len(fs[files[1]].text) = 2
    /\ WrittenLines = << <<" ", "A", "B", " ">> >>
    /\ hash_entries = <<[filename |-> <<"a", ".", "b">>, hash |-> <<"a", "b">>,
                         binary |-> FALSE]>>

\* write(entries, algorithm): GNU form, one entry per line.
write(entries) ==
    [i \in DOMAIN entries |->
        GnuLine(entries[i].hash, entries[i].binary, entries[i].filename)]

\* The entry sets of the model: a lower-case hash, a target name, a marker.
WrittenEntries == [filename : LineNames, hash : {<<"a", "b">>}, binary : BOOLEAN]

\* C15: the parse of the manifest written for a sequence of entries returns
\* that sequence: the same filenames, hashes and binary markers, in order.
C15_WriteParseRoundTrip ==
    \A entries \in SeqsUpTo(WrittenEntries, MaxEntries) :
        (/\ pc = "returned"
         /\ fs[files[1]].text = write(entries)) => hash_entries = entries

\* -------------------------------- claims: auto_verify_files, the summary
\* C16: a manifest that is parsed to zero entries is reported and counted as
\* a failure: when the run ends it has an outcome that is not a success, and
\* the failure count is not 0.
C16_EmptyManifestIsFailure ==
    pc = "done" =>
        \A i \in DOMAIN hash_files :
            LET m == hash_files[i]
            IN (/\ ~Unsupported(ManifestAlgo(m), hash_funcs)
                /\ CanOpen(fs, m)
                /\ ParseEntries(fs[m].text, m) = <<>>) =>
                  /\ \E k \in DOMAIN outcomes :
                        outcomes[k].manifest = m /\ outcomes[k].status # "matched"
                  /\ fail_count >= 1

\* C17: when the run ends, the failure count of the summary is the number of
\* the failures met: missing targets, mismatches, manifests skipped for an
\* unsupported algorithm, and errors raised.
C17_EveryFailureCounted ==
    pc = "done" =>
        fail_count =
            Cardinality(OutcomesWith({"missing", "mismatched", "unsupported", "error"}))

\* -------------------- setup_algorithms and calculate_file_hash, on their own
\* A name hashlib knows nothing of.
CRC == <<"C", "R", "C">>

\* A file of which mmap.mmap() fails.
UnmappableNode(content) ==
    [kind |-> "file", readable |-> TRUE, mmap_ok |-> FALSE, content |-> content, text |-> <<>>]

\* config['algorithms']: the sets of names configured enabled.
EnabledConfigs == {{MD5}, {MD5, SHA1}, {MD5, SM3}, {MD5, CRC}}

\* self.setup_algorithms(), as the constructor calls it.
SetupAlgorithms ==
    /\ pc = "new"
    /\ hash_funcs' = setup_algorithms(config.algorithms)
    /\ pc' = "start"
    /\ UNCHANGED <<files, fs, dir, config, computeVars, compareVars, verifyVars>>

\* calculate_file_hash(filepath) up to its first read: getsize, the
\* accumulators, open and mmap.  tasks holds the frame of the one call.
HashCall ==
    /\ pc = "start"
    /\ LET e == OpenError(fs, files[1], config)
       IN /\ tasks' = <<[path |-> files[1],
                         st |-> IF e = "" THEN "running" ELSE "failed",
                         pos |-> 0,
                         acc |-> IF e = "getsize" THEN <<>> ELSE NewAccumulators(hash_funcs),
                         result |-> <<>>]>>
          /\ pc' = IF e = "" THEN "reading" ELSE "raised"
          /\ error' = IF e = "" THEN "" ELSE "IOError"
    /\ UNCHANGED <<envVars, pi, yielded, zi, reports, expanded_files, hashes, ci,
                   results, ncalls, verifyVars>>

\* One read of buffer_size bytes, and the update of every accumulator with it.
HashRead ==
    /\ pc = "reading"
    /\ tasks[1].pos < Len(fs[files[1]].content)
    /\ tasks' = TaskUpdate(tasks, 1,
                    ReadChunk(fs[files[1]].content, tasks[1].pos, config.buffer_size))
    /\ UNCHANGED <<envVars, pc, pi, yielded, zi, reports, compareVars, verifyVars>>

\* The read at the end of the file returns nothing: return the hexdigests.
HashReturn ==
    /\ pc = "reading"
    /\ tasks[1].pos = Len(fs[files[1]].content)
    /\ tasks' = [tasks EXCEPT ![1].st = "done", ![1].result = HexDigests(tasks[1].acc)]
    /\ pc' = "returned"
    /\ UNCHANGED <<envVars, pi, yielded, zi, reports, compareVars, verifyVars>>

InitHash ==
    /\ files = <<NameA>>
    /\ \/ fs = <<>>
       \/ fs = (NameA :> DirNode)
       \/ \E c \in Contents :
             fs \in {(NameA :> FileNode(c)), (NameA :> UnmappableNode(c)),
                     (NameA :> LockedNode(c))}
    /\ dir \in Listings(DOMAIN fs)
    /\ config \in [async_mode : {TRUE}, thread_count : {1}, buffer_size : 1..MaxLen,
                   ignore_errors : {FALSE}, use_mmap : BOOLEAN,
                   algorithms : EnabledConfigs]
    /\ hash_funcs = {}
    /\ pc = "new"
    /\ ComputeIdle /\ CompareIdle /\ VerifyIdle

NextHash ==
    \/ SetupAlgorithms
    \/ HashCall
    \/ HashRead
    \/ HashReturn

SpecHash == InitHash /\ [][NextHash]_vars

\* --------------------- claims: setup_algorithms and calculate_file_hash
\* C18: the call on a zero-length file that can be opened returns, and what
\* it returns is the empty-input digest of every enabled algorithm, with
\* use_mmap set and with use_mmap not set.
C18_EmptyFileDigests ==
    (/\ pc \in {"reading", "returned", "raised"}
     /\ CanOpen(fs, files[1])
     /\ fs[files[1]].content = <<>>) =>
        /\ pc # "raised"
        /\ pc = "returned" =>
              tasks[1].result = [a \in hash_funcs |-> HexDigest(a, NewHash(a))]

\* C18 witness: with use_mmap set and two algorithms enabled, the call on a
\* zero-length file has returned.
C18_Witness ==
    /\ pc = "returned"
    /\ fs[files[1]].content = <<>>
    /\ config.use_mmap
    /\ Cardinality(DOMAIN tasks[1].result) = 2

\* C19: the call on a path that does not exist, is a directory or cannot be
\* read raises an error and returns no digest set.
C19_UnreadablePathRaises ==
    (/\ pc \in {"reading", "returned", "raised"}
     /\ \/ ~Exists(fs, files[1])
        \/ fs[files[1]].kind = "dir"
        \/ ~fs[files[1]].readable) =>
        /\ pc = "raised"
        /\ error = "IOError"
        /\ tasks[1].result = <<>>

\* C19 witness: the call on a directory has raised.
C19_Witness ==
    /\ pc = "raised"
    /\ Exists(fs, files[1])
    /\ fs[files[1]].kind = "dir"

\* C20: a name configured enabled that has no implementation on the host
\* makes the set-up of the algorithms fail with the unsupported-algorithm
\* error, and is not just left out of the enabled set.
C20_UnknownAlgorithmFails ==
    (/\ pc # "new"
     /\ \E a \in config.algorithms : Lower(a) \notin AlgorithmsAvailable) =>
        error = "UnsupportedAlgorithm"

\* -------------------------------- claims: parse_hash_file, the remainder
\* The line without the blanks around it, its first token, and what remains
\* of it after the first run of whitespace.
FirstToken(line) == SubSeq(Strip(line), 1, TokenLen(Strip(line)))
AfterFirstRun(line) ==
    LET rest == Drop(Strip(line), TokenLen(Strip(line)))
    IN Drop(rest, LeadingSpace(rest))

\* C26: of a manifest whose lines each hold a hash, a run of whitespace and a
\* name, each line yields one entry: its hash is the first token lower-cased,
\* and its filename is what remains of the line after the first run of
\* whitespace, less a leading `*`, whatever whitespace the name has within
\* it and also when the run is a tab.
C26_FilenameIsRemainder ==
    (/\ pc = "returned"
     /\ WrittenLines # <<>>
     /\ \A i \in DOMAIN WrittenLines :
           /\ AfterFirstRun(WrittenLines[i]) # <<>>
           /\ WrittenLines[i] # BsdLine(MD5, NameA, <<"a", "b">>)) =>
        /\ Len(hash_entries) = Len(WrittenLines)
        /\ \A i \in DOMAIN hash_entries :
              /\ hash_entries[i].hash = Lower(FirstToken(WrittenLines[i]))
              /\ hash_entries[i].filename =
                    IF Head(AfterFirstRun(WrittenLines[i])) = "*"
                    THEN Tail(AfterFirstRun(WrittenLines[i]))
                    ELSE AfterFirstRun(WrittenLines[i])

\* -------------------------------- claims: calculate_file_hash, the reads
\* C27: with use_mmap set, the call on a readable file of which mmap.mmap()
\* fails does not raise: it returns, and what it returns is the digest set of
\* the file's content.
C27_MmapFailureFallsBack ==
    (/\ pc \in {"reading", "returned", "raised"}
     /\ config.use_mmap
     /\ CanOpen(fs, files[1])
     /\ ~fs[files[1]].mmap_ok) =>
        /\ pc # "raised"
        /\ pc = "returned" =>
              tasks[1].result = DigestsOf(fs[files[1]].content, hash_funcs)

\* C28: while the call reads, every accumulator has been updated with exactly
\* the bytes of the file before the read position, in file order, the position
\* having advanced by whole chunks of buffer_size; and the call returns the
\* digests of the whole content, whatever buffer_size is.
C28_ChunksOnceInOrder ==
    /\ pc = "reading" =>
          /\ DOMAIN tasks[1].acc = hash_funcs
          /\ \A a \in hash_funcs :
                tasks[1].acc[a] =
                    HashUpdate(a, NewHash(a),
                               SubSeq(fs[files[1]].content, 1, tasks[1].pos))
          /\ \/ tasks[1].pos % config.buffer_size = 0
             \/ tasks[1].pos = Len(fs[files[1]].content)
    /\ pc = "returned" =>
          tasks[1].result = DigestsOf(fs[files[1]].content, hash_funcs)

\* C28 witness: with two algorithms enabled and use_mmap set, the call is
\* between two reads of a file longer than buffer_size.
C28_Witness ==
    /\ pc = "reading"
    /\ Cardinality(hash_funcs) = 2
    /\ config.use_mmap
    /\ tasks[1].pos > 0
    /\ tasks[1].pos < Len(fs[files[1]].content)

\* ---------------------------- claims: auto_verify_files, the enabled set
\* C29: no step of auto_verify_files changes self.hash_funcs: an algorithm
\* activated for a manifest whose algorithm is not enabled is not added to it.
C29_EnabledSetUnchanged ==
    [][hash_funcs' = hash_funcs]_vars

\* C29 witness: the run has ended, having verified an entry of a manifest
\* whose algorithm is not among the enabled ones.
C29_Witness ==
    /\ pc = "done"
    /\ hash_funcs # {}
    /\ \E k \in OutcomesWith({"matched"}) :
          ManifestAlgo(outcomes[k].manifest) \notin hash_funcs

====
